---- MODULE Spec2Model ----
(***************************************************************************)
(* A model of rust-curl (src/main.rs): one invocation of the command-line  *)
(* HTTP client, from the parsed arguments to the final output.             *)
(*                                                                         *)
(* Text that the program inspects character by character (method names,    *)
(* -H / -F / -d tokens, bodies) is a sequence of one-character strings.    *)
(* Option<T> is a sequence of length 0 (None) or 1 (Some).                 *)
(***************************************************************************)
EXTENDS Integers, Sequences, FiniteSets, TLC

VARIABLES
    matches,        \* the command line, as clap hands it over (ArgMatches)
    pc,             \* position of main()
    req_builder,    \* Option<RequestBuilder> after the method dispatch
    req,            \* Option<Request> after build()
    transportCalls, \* number of client.execute() calls made
    sentReq,        \* Option<Request>: what was handed to the transport
    response,       \* Option<Response>
    text,           \* Option<String>: the response body read as text
    stdout,         \* what was printed, in order
    file,           \* Option<contents> of the output path
    fileCreates,    \* number of File::create calls made
    exit,           \* "none" while running, then how the process ended
    panicMsg        \* the panic message when exit = "panic"

vars == <<matches, pc, req_builder, req, transportCalls, sentReq, response,
          text, stdout, file, fileCreates, exit, panicMsg>>

None == <<>>
Some(x) == <<x>>

(***************************************************************************)
(* Bounds and input alphabets                                              *)
(***************************************************************************)
\* Total number of -H, -F and -d values on one command line.
MaxArgs == 2

GET == <<"G", "E", "T">>
POST == <<"P", "O", "S", "T">>
PUT == <<"P", "U", "T">>
PATCH == <<"P", "A", "T", "C", "H">>
HEAD == <<"H", "E", "A", "D">>
DELETE == <<"D", "E", "L", "E", "T", "E">>

MethodArgs ==
    { GET, POST, PUT, PATCH, HEAD, DELETE,
      <<"g", "e", "t">>, <<"P", "o", "s", "t">>, <<"T", "R", "A", "C", "E">> }

HeaderTokens ==
    { <<"A", ":", "b", " ">>,      \* "A:b "
      <<"a", ":", "d">>,           \* "a:d"
      <<"A", "b">>,                \* "Ab"     (no colon)
      <<"A", ":", "b", ":", "c">> }  \* "A:b:c" (two colons)

FormTokens ==
    { <<"k", "=", " ", "v">>,      \* "k= v"
      <<"j", "=", "1">>,           \* "j=1"
      <<"k", "v">>,                \* "kv"     (no '=')
      <<"k", "=", "v", "=", "w">> }  \* "k=v=w" (two '=')

DataTokens ==
    { <<"a", "=", "1">>, <<"b", "=", "2">> }

UriArgs == { "http://h/p", "not a url" }

OutArgs == { "out.txt" }

ResponseBodies == { <<"o", "k">>, <<"o", " ", "\n">> }

Responses == [status : {200, 404}, body : ResponseBodies]

SeqsUpTo(S, n) == UNION { [1..k -> S] : k \in 0..n }

TokenLists ==
    { t \in SeqsUpTo(HeaderTokens, MaxArgs) \X SeqsUpTo(FormTokens, MaxArgs)
              \X SeqsUpTo(DataTokens, MaxArgs) :
        Len(t[1]) + Len(t[2]) + Len(t[3]) <= MaxArgs }

(***************************************************************************)
(* Text helpers (std::str)                                                 *)
(***************************************************************************)
LowerAlpha ==
    <<"a", "b", "c", "d", "e", "f", "g", "h", "i", "j", "k", "l", "m",
      "n", "o", "p", "q", "r", "s", "t", "u", "v", "w", "x", "y", "z">>

UpperAlpha ==
    <<"A", "B", "C", "D", "E", "F", "G", "H", "I", "J", "K", "L", "M",
      "N", "O", "P", "Q", "R", "S", "T", "U", "V", "W", "X", "Y", "Z">>

IndexIn(alpha, c) ==
    IF \E i \in 1..Len(alpha) : alpha[i] = c
    THEN CHOOSE i \in 1..Len(alpha) : alpha[i] = c
    ELSE 0

LowerChar(c) ==
    IF IndexIn(UpperAlpha, c) # 0 THEN LowerAlpha[IndexIn(UpperAlpha, c)] ELSE c

UpperChar(c) ==
    IF IndexIn(LowerAlpha, c) # 0 THEN UpperAlpha[IndexIn(LowerAlpha, c)] ELSE c

to_lowercase(s) == [i \in 1..Len(s) |-> LowerChar(s[i])]

to_uppercase(s) == [i \in 1..Len(s) |-> UpperChar(s[i])]

eq_ignore_case(a, b) == to_lowercase(a) = to_lowercase(b)

IsWhitespace(c) == c \in {" ", "\n", "\t"}

RECURSIVE trim_end(_)
trim_end(s) ==
    IF s # <<>> /\ IsWhitespace(s[Len(s)])
    THEN trim_end(SubSeq(s, 1, Len(s) - 1))
    ELSE s

RECURSIVE trim_start(_)
trim_start(s) ==
    IF s # <<>> /\ IsWhitespace(s[1]) THEN trim_start(Tail(s)) ELSE s

\* str::split(sep): the pieces between separators; n separators give n+1 pieces.
RECURSIVE split(_, _)
split(s, sep) ==
    IF \E i \in 1..Len(s) : s[i] = sep
    THEN LET i == CHOOSE j \in 1..Len(s) :
                     s[j] = sep /\ \A h \in 1..(j - 1) : s[h] # sep
         IN <<SubSeq(s, 1, i - 1)>> \o split(SubSeq(s, i + 1, Len(s)), sep)
    ELSE <<s>>

\* [&str]::join(sep)
RECURSIVE join(_, _)
join(parts, sep) ==
    IF parts = <<>> THEN <<>>
    ELSE IF Len(parts) = 1 THEN parts[1]
    ELSE parts[1] \o <<sep>> \o join(Tail(parts), sep)

EmptyMap == [x \in {} |-> <<>>]

\* HashMap::insert: the last value stored under a key wins.
Insert(map, k, v) ==
    [x \in DOMAIN map \cup {k} |-> IF x = k THEN v ELSE map[x]]

(***************************************************************************)
(* External collaborators: url, http::HeaderMap, serde_urlencoded, reqwest *)
(***************************************************************************)
\* IntoUrl: Url::parse, then a URL without a host is refused.
IntoUrl(uri) ==
    CASE uri = "http://h/p" -> [ok |-> TRUE, host |-> "h", path |-> "/p"]
      [] OTHER -> [ok |-> FALSE, host |-> "", path |-> ""]

ValidHeaderName(n) ==
    /\ n # <<>>
    /\ \A i \in 1..Len(n) : ~IsWhitespace(n[i]) /\ n[i] \notin {":", "=", "&"}

ValidHeaderValue(v) == \A i \in 1..Len(v) : v[i] # "\n"

CONTENT_TYPE == <<"c", "o", "n", "t", "e", "n", "t", "-", "t", "y", "p", "e">>

FormUrlencoded ==
    <<"a", "p", "p", "l", "i", "c", "a", "t", "i", "o", "n", "/", "x", "-", "w", "w", "w", "-", "f", "o", "r", "m", "-", "u", "r", "l", "e", "n", "c", "o", "d", "e", "d">>

\* form_urlencoded::byte_serialize, on the characters of the alphabets above.
UrlEncodeChar(c) ==
    CASE c = " " -> <<"+">>
      [] c = "=" -> <<"%", "3", "D">>
      [] c = "&" -> <<"%", "2", "6">>
      [] c = ":" -> <<"%", "3", "A">>
      [] c = "\n" -> <<"%", "0", "A">>
      [] OTHER -> <<c>>

RECURSIVE UrlEncode(_)
UrlEncode(s) ==
    IF s = <<>> THEN <<>> ELSE UrlEncodeChar(Head(s)) \o UrlEncode(Tail(s))

\* serde_urlencoded::to_string of a HashMap: key=value pairs joined by '&', in
\* the map's iteration order, which is unspecified: every order is possible.
FormEncodings(map) ==
    LET keys == DOMAIN map
        n == Cardinality(keys)
        orders == { o \in [1..n -> keys] :
                      \A i, j \in 1..n : i # j => o[i] # o[j] }
    IN { join([i \in 1..n |-> UrlEncode(o[i]) \o <<"=">> \o UrlEncode(map[o[i]])],
              "&") : o \in orders }

NoBody == [kind |-> "none", bytes |-> <<>>]
Bytes(b) == [kind |-> "bytes", bytes |-> b]

\* RequestBuilder: the request under construction, or the error met so far.
NewBuilder(verb, uri) ==
    [verb |-> verb, url |-> IntoUrl(uri), headers |-> EmptyMap, body |-> NoBody,
     err |-> ~IntoUrl(uri).ok]

\* RequestBuilder::form
BuilderForm(b, encoded) ==
    IF b.err THEN b
    ELSE [b EXCEPT !.headers = Insert(b.headers, CONTENT_TYPE, FormUrlencoded),
                   !.body = Bytes(encoded)]

\* RequestBuilder::body
BuilderBody(b, bytes) == IF b.err THEN b ELSE [b EXCEPT !.body = Bytes(bytes)]

\* RequestBuilder::headers: entries of the given map replace those of the same name.
BuilderHeaders(b, map) ==
    IF b.err THEN b
    ELSE [b EXCEPT !.headers =
            [n \in DOMAIN b.headers \cup DOMAIN map |->
                IF n \in DOMAIN map THEN map[n] ELSE b.headers[n]]]

(***************************************************************************)
(* main.rs: the parsers                                                    *)
(***************************************************************************)
is_present(m, name) ==
    CASE name = "header" -> m.header # <<>>
      [] name = "form" -> m.form # <<>>
      [] name = "data" -> m.data # <<>>
      [] name = "out" -> m.out # None
      [] name = "verbose" -> m.verbose
      [] name = "method" -> m.method # None

Parsed(map) == [panic |-> "", map |-> map]
ParsePanic(msg) == [panic |-> msg, map |-> EmptyMap]

\* the loop of parse_headers over the -H tokens
RECURSIVE HeaderLoop(_, _)
HeaderLoop(headers, header_map) ==
    IF headers = <<>> THEN Parsed(header_map)
    ELSE LET header == Head(headers)
             values == split(header, ":")
         IN IF Len(values) # 2 THEN ParsePanic("Unexpected header format")
            ELSE HeaderLoop(Tail(headers),
                            Insert(header_map, to_lowercase(values[1]),
                                   trim_end(values[2])))

\* (&header_map).try_into().expect("Invalid headers")
TryIntoHeaderMap(r) ==
    IF r.panic # "" THEN r
    ELSE IF \A n \in DOMAIN r.map : ValidHeaderName(n) /\ ValidHeaderValue(r.map[n])
    THEN r
    ELSE ParsePanic("Invalid headers")

parse_headers(m) ==
    IF is_present(m, "header") THEN Parsed(EmptyMap)
    ELSE TryIntoHeaderMap(HeaderLoop(m.header, EmptyMap))

\* A lenient variant of the format check of parse_fields: only too few pieces fail.
BadFormFormat_Lenient(values) == Len(values) < 2

BadFormFormat(values) == Len(values) # 2

\* the loop of parse_fields over the -F tokens
RECURSIVE FieldLoop(_, _)
FieldLoop(fields, header_map) ==
    IF fields = <<>> THEN Parsed(header_map)
    ELSE LET field == Head(fields)
             values == split(field, "=")
         IN IF BadFormFormat(values) THEN ParsePanic("Unexpected form format")
            ELSE FieldLoop(Tail(fields),
                           Insert(header_map, values[1], trim_start(values[2])))

parse_fields(m) ==
    IF ~is_present(m, "form") THEN Parsed(EmptyMap)
    ELSE FieldLoop(m.form, EmptyMap)

parse_data(m) ==
    IF ~is_present(m, "data") THEN <<>> ELSE join(m.data, "&")

(***************************************************************************)
(* main.rs: clap's validation and the method dispatch                      *)
(***************************************************************************)
PossibleValues == {POST, GET, PUT, PATCH, HEAD, DELETE}

\* A variant of the -X validation that lets every value through.
PossibleValue_Any(v) == TRUE

\* possible_values(..).ignore_case(true): the value is accepted when it equals a
\* possible value ignoring case; it is stored as typed.
PossibleValue(v) == \E p \in PossibleValues : eq_ignore_case(p, v)

Built(b) == [panic |-> "", builder |-> b]
DispatchPanic(msg) == [panic |-> msg, builder |-> NewBuilder(<<>>, "")]

\* A variant of the body branch that looks at -d before -F.
BodyBranch_DataFirst(m, b) ==
    IF is_present(m, "data")
    THEN {Built(BuilderBody(b, parse_data(m)))}
    ELSE IF is_present(m, "form")
    THEN LET fields == parse_fields(m)
         IN IF fields.panic # "" THEN {DispatchPanic(fields.panic)}
            ELSE {Built(BuilderForm(b, e)) : e \in FormEncodings(fields.map)}
    ELSE {Built(b)}

\* the body branch of the POST | PUT | PATCH arm: the set of builders it can yield
BodyBranch(m, b) ==
    IF is_present(m, "form")
    THEN LET fields == parse_fields(m)
         IN IF fields.panic # "" THEN {DispatchPanic(fields.panic)}
            ELSE {Built(BuilderForm(b, e)) : e \in FormEncodings(fields.map)}
    ELSE IF is_present(m, "data")
    THEN {Built(BuilderBody(b, parse_data(m)))}
    ELSE {Built(b)}

\* A variant of the dispatch whose DELETE arm takes the body branch too.
MethodDispatch_DeleteBody(m, method, uri) ==
    CASE method = GET -> {Built(NewBuilder(GET, uri))}
      [] method \in {POST, PUT, PATCH} ->
            BodyBranch(m, CASE method = PUT -> NewBuilder(PUT, uri)
                            [] method = PATCH -> NewBuilder(PATCH, uri)
                            [] OTHER -> NewBuilder(POST, uri))
      [] method = HEAD -> {Built(NewBuilder(HEAD, uri))}
      [] method = DELETE -> BodyBranch(m, NewBuilder(DELETE, uri))
      [] OTHER -> {DispatchPanic("Invalid method")}

\* match method { ... }
MethodDispatch(m, method, uri) ==
    CASE method = GET -> {Built(NewBuilder(GET, uri))}
      [] method \in {POST, PUT, PATCH} ->
            BodyBranch(m, CASE method = PUT -> NewBuilder(PUT, uri)
                            [] method = PATCH -> NewBuilder(PATCH, uri)
                            [] OTHER -> NewBuilder(POST, uri))
      [] method = HEAD -> {Built(NewBuilder(HEAD, uri))}
      [] method = DELETE -> {Built(NewBuilder(DELETE, uri))}
      [] OTHER -> {DispatchPanic("Invalid method")}

(***************************************************************************)
(* main.rs: main(), one action per step                                    *)
(***************************************************************************)
Init ==
    /\ matches \in
         { [verbose |-> v, method |-> me, header |-> t[1], form |-> t[2],
            data |-> t[3], uri |-> u, out |-> o] :
             v \in BOOLEAN,
             me \in {None} \cup {Some(x) : x \in MethodArgs},
             t \in TokenLists,
             u \in {None} \cup {Some(x) : x \in UriArgs},
             o \in {None} \cup {Some(x) : x \in OutArgs} }
    /\ pc = "get_matches"
    /\ req_builder = None
    /\ req = None
    /\ transportCalls = 0
    /\ sentReq = None
    /\ response = None
    /\ text = None
    /\ stdout = <<>>
    /\ file = None
    /\ fileCreates = 0
    /\ exit = "none"
    /\ panicMsg = ""

\* The process ends: exit code 0 ("ok"), clap's usage error ("usage"), a panic
\* ("panic") or main returning Err ("error").
Terminate(how, msg) ==
    /\ pc' = "done"
    /\ exit' = how
    /\ panicMsg' = msg

Goto(next) ==
    /\ pc' = next
    /\ UNCHANGED <<exit, panicMsg>>

\* Command::get_matches: the required uri and the possible values of -X
GetMatches ==
    /\ pc = "get_matches"
    /\ IF matches.uri = None
          \/ (matches.method # None /\ ~PossibleValue(matches.method[1]))
       THEN Terminate("usage", "")
       ELSE Goto("dispatch")
    /\ UNCHANGED <<matches, req_builder, req, transportCalls, sentReq, response,
                   text, stdout, file, fileCreates>>

\* value_of("uri").unwrap(), value_of("method").unwrap(), match method
Dispatch ==
    /\ pc = "dispatch"
    /\ IF matches.method = None
       THEN /\ Terminate("panic", "unwrap on None")
            /\ UNCHANGED req_builder
       ELSE \E r \in MethodDispatch(matches, matches.method[1], matches.uri[1]) :
               IF r.panic # ""
               THEN Terminate("panic", r.panic) /\ UNCHANGED req_builder
               ELSE Goto("build") /\ req_builder' = Some(r.builder)
    /\ UNCHANGED <<matches, req, transportCalls, sentReq, response, text, stdout,
                   file, fileCreates>>

\* req_builder.headers(parse_headers(&matches)).build().unwrap()
Build ==
    /\ pc = "build"
    /\ LET hs == parse_headers(matches)
           b == BuilderHeaders(req_builder[1], hs.map)
       IN IF hs.panic # ""
          THEN Terminate("panic", hs.panic) /\ UNCHANGED req
          ELSE IF b.err
          THEN /\ Terminate("panic", "unwrap on Err")
               /\ UNCHANGED req
          ELSE /\ Goto("print_req")
               /\ req' = Some([verb |-> b.verb, url |-> b.url,
                               headers |-> b.headers, body |-> b.body])
    /\ UNCHANGED <<matches, req_builder, transportCalls, sentReq, response, text,
                   stdout, file, fileCreates>>

\* print_req
ReqBlock(r) ==
    <<[kind |-> "req_line", verb |-> r.verb, path |-> r.url.path],
      [kind |-> "req_host", host |-> r.url.host],
      [kind |-> "req_headers", headers |-> r.headers],
      [kind |-> "req_end"]>>

PrintReq ==
    /\ pc = "print_req"
    /\ stdout' = IF is_present(matches, "verbose")
                 THEN stdout \o ReqBlock(req[1]) ELSE stdout
    /\ Goto("send")
    /\ UNCHANGED <<matches, req_builder, req, transportCalls, sentReq, response,
                   text, file, fileCreates>>

\* A variant of the send that tries once more after a transport error.
Send_Retry ==
    /\ pc = "send"
    /\ transportCalls' = transportCalls + 1
    /\ sentReq' = req
    /\ \/ \E res \in Responses : response' = Some(res) /\ Goto("print_res")
       \/ IF transportCalls = 0
          THEN Goto("send") /\ UNCHANGED response
          ELSE Terminate("error", "") /\ UNCHANGED response
    /\ UNCHANGED <<matches, req_builder, req, text, stdout, file, fileCreates>>

\* client.execute(req).await?
Send ==
    /\ pc = "send"
    /\ transportCalls' = transportCalls + 1
    /\ sentReq' = req
    /\ \/ \E res \in Responses : response' = Some(res) /\ Goto("print_res")
       \/ Terminate("error", "") /\ UNCHANGED response
    /\ UNCHANGED <<matches, req_builder, req, text, stdout, file, fileCreates>>

\* print_res
ResBlock(r) ==
    <<[kind |-> "res_line", status |-> r.status],
      [kind |-> "res_headers"],
      [kind |-> "res_end"]>>

PrintRes ==
    /\ pc = "print_res"
    /\ stdout' = IF is_present(matches, "verbose")
                 THEN stdout \o ResBlock(response[1]) ELSE stdout
    /\ Goto("text")
    /\ UNCHANGED <<matches, req_builder, req, transportCalls, sentReq, response,
                   text, file, fileCreates>>

\* response.text().await?
ReadText ==
    /\ pc = "text"
    /\ \/ text' = Some(response[1].body) /\ Goto("output")
       \/ Terminate("error", "") /\ UNCHANGED text
    /\ UNCHANGED <<matches, req_builder, req, transportCalls, sentReq, response,
                   stdout, file, fileCreates>>

\* save_in_file: the outcomes of File::create followed by write_all. A failed
\* create leaves the path alone; a failed write leaves a truncated file.
SaveInFile(old, data) ==
    {[ok |-> TRUE, file |-> Some(data)], [ok |-> FALSE, file |-> old]}
      \cup {[ok |-> FALSE, file |-> Some(SubSeq(data, 1, n))] :
              n \in 0..(Len(data) - 1)}

\* A variant of the output that prints the body when the file cannot be saved.
Output_Fallback ==
    /\ pc = "output"
    /\ IF is_present(matches, "out")
       THEN \E r \in SaveInFile(file, text[1]) :
              /\ fileCreates' = fileCreates + 1
              /\ file' = r.file
              /\ IF r.ok
                 THEN /\ stdout' = stdout \o
                          <<[kind |-> "saving"],
                            [kind |-> "saved", path |-> matches.out[1]]>>
                      /\ Terminate("ok", "")
                 ELSE /\ stdout' = stdout \o
                          <<[kind |-> "saving"],
                            [kind |-> "body", text |-> trim_end(text[1])]>>
                      /\ Terminate("ok", "")
       ELSE /\ stdout' = stdout \o <<[kind |-> "body", text |-> trim_end(text[1])]>>
            /\ Terminate("ok", "")
            /\ UNCHANGED <<file, fileCreates>>
    /\ UNCHANGED <<matches, req_builder, req, transportCalls, sentReq, response,
                   text>>

\* the output of the body, and Ok(())
Output ==
    /\ pc = "output"
    /\ IF is_present(matches, "out")
       THEN \E r \in SaveInFile(file, text[1]) :
              /\ fileCreates' = fileCreates + 1
              /\ file' = r.file
              /\ IF r.ok
                 THEN /\ stdout' = stdout \o
                          <<[kind |-> "saving"],
                            [kind |-> "saved", path |-> matches.out[1]]>>
                      /\ Terminate("ok", "")
                 ELSE /\ stdout' = stdout \o <<[kind |-> "saving"]>>
                      /\ Terminate("panic", "Could not save the file")
       ELSE /\ stdout' = stdout \o <<[kind |-> "body", text |-> trim_end(text[1])]>>
            /\ Terminate("ok", "")
            /\ UNCHANGED <<file, fileCreates>>
    /\ UNCHANGED <<matches, req_builder, req, transportCalls, sentReq, response,
                   text>>

Next ==
    \/ GetMatches
    \/ Dispatch
    \/ Build
    \/ PrintReq
    \/ Send
    \/ PrintRes
    \/ ReadText
    \/ Output

Spec == Init /\ [][Next]_vars

(***************************************************************************)
(* Vocabulary of the properties                                            *)
(***************************************************************************)
Count(t, c) == Cardinality({i \in 1..Len(t) : t[i] = c})

Fatal == exit \in {"usage", "panic", "error"}

Printed(kind) == \E i \in 1..Len(stdout) : stdout[i].kind = kind

BodyVerbs == {POST, PUT, PATCH}
BodilessVerbs == {GET, HEAD, DELETE}

GoodUri == Some("http://h/p")

HasBadHeader == \E i \in 1..Len(matches.header) : Count(matches.header[i], ":") # 1
HasBadForm == \E i \in 1..Len(matches.form) : Count(matches.form[i], "=") # 1

\* the name and the value of a well-formed "Name:Value" token
ColonAt(t) == CHOOSE i \in 1..Len(t) : t[i] = ":"
NameOf(t) == SubSeq(t, 1, ColonAt(t) - 1)
ValueOf(t) == SubSeq(t, ColonAt(t) + 1, Len(t))

\* the key of a well-formed "key=value" token
KeyOf(t) == SubSeq(t, 1, (CHOOSE i \in 1..Len(t) : t[i] = "=") - 1)

\* s is t without its trailing whitespace
IsTrimmedEndOf(s, t) ==
    /\ Len(s) <= Len(t)
    /\ s = SubSeq(t, 1, Len(s))
    /\ \A i \in (Len(s) + 1)..Len(t) : IsWhitespace(t[i])
    /\ (s # <<>> => ~IsWhitespace(s[Len(s)]))

(***************************************************************************)
(* C1                                                                      *)
(***************************************************************************)
\* C1: a -X value equal to one of GET, POST, PUT, PATCH, HEAD, DELETE ignoring
\* case never ends in the "Invalid method" panic, and the request that is built
\* and sent carries exactly the corresponding verb.
C1_CaseInsensitiveVerb ==
    (matches.method # None /\ to_uppercase(matches.method[1]) \in PossibleValues)
        => /\ panicMsg # "Invalid method"
           /\ (req # None => req[1].verb = to_uppercase(matches.method[1]))
           /\ (sentReq # None => sentReq[1].verb = to_uppercase(matches.method[1]))

(***************************************************************************)
(* C2                                                                      *)
(***************************************************************************)
\* C2: when every -H token is well formed and at least one is given, the request
\* that is built carries, for every token, a header under the lower-cased name
\* whose value is the end-trimmed value of a token of that name; its set of
\* headers is not empty.
C2_HeadersAttached ==
    (req # None /\ matches.header # <<>> /\ ~HasBadHeader)
        => /\ DOMAIN req[1].headers # {}
           /\ \A i \in 1..Len(matches.header) :
                LET name == to_lowercase(NameOf(matches.header[i]))
                IN /\ name \in DOMAIN req[1].headers
                   /\ \E j \in 1..Len(matches.header) :
                        /\ to_lowercase(NameOf(matches.header[j])) = name
                        /\ IsTrimmedEndOf(req[1].headers[name],
                                          ValueOf(matches.header[j]))

(***************************************************************************)
(* C3                                                                      *)
(***************************************************************************)
\* C3: an invocation with a -H token holding zero or two or more colons never
\* invokes the transport and, once ended, has ended in a fatal error.
C3_BadHeaderRejected ==
    HasBadHeader => /\ transportCalls = 0
                    /\ sentReq = None
                    /\ (pc = "done" => Fatal)

(***************************************************************************)
(* C4                                                                      *)
(***************************************************************************)
\* C4 as stated: an invocation with a -F token that does not hold exactly one '='
\* never invokes the transport and, once ended, has ended in a fatal error,
\* whatever the method.
C4_BadFormFatalEveryMethod ==
    HasBadForm => /\ transportCalls = 0
                  /\ (pc = "done" => Fatal)

\* C4 as amended: an invocation with a -F token that does not hold exactly one
\* '=' never invokes the transport and, once ended, has ended in a fatal error,
\* unless the -X value is exactly GET, HEAD or DELETE (for which the -F tokens
\* are never parsed).
C4_BadFormFatalUnlessBodiless ==
    (HasBadForm /\ matches.method \notin {Some(v) : v \in BodilessVerbs})
        => /\ transportCalls = 0
           /\ req_builder = None
           /\ (pc = "done" => Fatal)

C4_Witness ==
    /\ HasBadForm
    /\ matches.method = Some(POST)
    /\ exit = "panic"
    /\ panicMsg = "Unexpected form format"
    /\ transportCalls = 0

(***************************************************************************)
(* C5                                                                      *)
(***************************************************************************)
\* C5: with -X omitted and a URI given, the invocation does not end in a panic
\* for the missing method; the request that is built is a GET, and an ended
\* invocation has sent it.
C5_MissingMethodIsGet ==
    (matches.method = None /\ matches.uri = GoodUri)
        => /\ exit # "panic"
           /\ (req # None => req[1].verb = GET)
           /\ (pc = "done" => sentReq # None /\ sentReq[1].verb = GET)

(***************************************************************************)
(* C6                                                                      *)
(***************************************************************************)
\* C6: a request built for POST, PUT or PATCH has the form encoding of the -F
\* fields as its body when any -F is given, whatever the -d fragments; else the
\* -d fragments joined with '&' in the order given when any -d is given
\* ("a=1","b=2" gives "a=1&b=2"); else no body.
C6_BodyPrecedence ==
    (req # None /\ req[1].verb \in BodyVerbs)
        => LET body == req[1].body
           IN /\ matches.form # <<>>
                   => /\ body.kind = "bytes"
                      /\ body.bytes \in FormEncodings(parse_fields(matches).map)
                      /\ Count(body.bytes, "=")
                           = Cardinality({KeyOf(matches.form[i]) :
                                            i \in 1..Len(matches.form)})
              /\ matches.form = <<<<"k", "=", " ", "v">>>>
                   => body.bytes = <<"k", "=", "v">>
              /\ (matches.form = <<>> /\ matches.data # <<>>)
                   => /\ body.kind = "bytes"
                      /\ body.bytes = join(matches.data, "&")
              /\ (matches.form = <<>>
                    /\ matches.data = << <<"a", "=", "1">>, <<"b", "=", "2">> >>)
                   => body.bytes = <<"a", "=", "1", "&", "b", "=", "2">>
              /\ (matches.form = <<>> /\ matches.data = <<>>) => body = NoBody

C6_Witness ==
    /\ sentReq # None
    /\ sentReq[1].verb \in BodyVerbs
    /\ matches.form # <<>>
    /\ matches.data # <<>>
    /\ sentReq[1].body.kind = "bytes"

(***************************************************************************)
(* C7                                                                      *)
(***************************************************************************)
\* C7: a request built for GET, HEAD or DELETE has no body whatever -F and -d
\* hold, and with such a method and a good URI every ended invocation has sent
\* that request.
C7_NoBodyForBodiless ==
    /\ (req # None /\ req[1].verb \in BodilessVerbs) => req[1].body = NoBody
    /\ (pc = "done" /\ matches.uri = GoodUri
          /\ matches.method \in {Some(v) : v \in BodilessVerbs})
         => /\ transportCalls = 1
            /\ sentReq # None
            /\ sentReq[1].verb = matches.method[1]
            /\ sentReq[1].body = NoBody

C7_Witness ==
    /\ pc = "done"
    /\ matches.method = Some(DELETE)
    /\ matches.form # <<>>
    /\ matches.data # <<>>
    /\ transportCalls = 1
    /\ sentReq[1].body = NoBody

(***************************************************************************)
(* C8                                                                      *)
(***************************************************************************)
\* C8: an invocation whose -X value is outside GET, POST, PUT, PATCH, HEAD,
\* DELETE (ignoring case) is refused by the argument parser: it ends in the
\* usage error, main never dispatches, the transport is never invoked, nothing
\* is printed and no file is written.
C8_UnknownMethodRefused ==
    (matches.method # None /\ to_uppercase(matches.method[1]) \notin PossibleValues)
        => /\ pc \in {"get_matches", "done"}
           /\ (pc = "done" => exit = "usage")
           /\ transportCalls = 0
           /\ stdout = <<>>
           /\ file = None
           /\ fileCreates = 0

C8_Witness ==
    /\ matches.method = Some(<<"T", "R", "A", "C", "E">>)
    /\ matches.uri = GoodUri
    /\ pc = "done"
    /\ exit = "usage"
    /\ transportCalls = 0

(***************************************************************************)
(* C9                                                                      *)
(***************************************************************************)
\* C9: with an output path the body is never printed and the file is created at
\* most once, also when saving fails; a successful run leaves the full body in
\* the file. Without an output path no file is ever created, and the body is
\* printed as the response text without its trailing whitespace.
C9_OneSink ==
    /\ matches.out # None
         => /\ ~Printed("body")
            /\ fileCreates <= 1
            /\ (exit = "ok" => file = Some(response[1].body))
    /\ matches.out = None
         => /\ file = None
            /\ fileCreates = 0
            /\ \A i \in 1..Len(stdout) :
                 stdout[i].kind = "body"
                    => /\ response # None
                       /\ IsTrimmedEndOf(stdout[i].text, response[1].body)
            /\ Cardinality({i \in 1..Len(stdout) : stdout[i].kind = "body"}) <= 1
            /\ (exit = "ok" => Printed("body"))

C9_Witness ==
    /\ matches.out # None
    /\ exit = "panic"
    /\ panicMsg = "Could not save the file"
    /\ fileCreates = 1
    /\ ~Printed("body")

(***************************************************************************)
(* C10                                                                     *)
(***************************************************************************)
Rank(p) ==
    CASE p = "get_matches" -> 0
      [] p = "dispatch" -> 1
      [] p = "build" -> 2
      [] p = "print_req" -> 3
      [] p = "send" -> 4
      [] p = "print_res" -> 5
      [] p = "text" -> 6
      [] p = "output" -> 7
      [] p = "done" -> 8

\* what each stage leaves behind presupposes the stages before it
StagesInOrder ==
    /\ transportCalls <= 1
    /\ (req # None => req_builder # None)
    /\ (Printed("req_line") => matches.verbose /\ req # None)
    /\ (transportCalls = 1 => sentReq = req /\ req # None
                              /\ (matches.verbose => Printed("req_end")))
    /\ (response # None => transportCalls = 1)
    /\ (Printed("res_line") => matches.verbose /\ response # None)
    /\ (text # None => response # None
                       /\ (matches.verbose => Printed("res_end")))
    /\ (Printed("body") \/ Printed("saving") \/ file # None \/ fileCreates > 0
          => text # None)
    /\ (exit = "usage" => req_builder = None /\ stdout = <<>>)
    /\ (exit = "error" /\ response = None
          => ~Printed("res_line") /\ ~Printed("body") /\ file = None
             /\ fileCreates = 0 /\ text = None)

\* C10: every execution runs Parse, Assemble, (print request), Send, (print
\* response), Output in that order without repeating a step: the transport is
\* invoked at most once, the request block is printed only while nothing was
\* sent, the response block only after a response, and an ended execution takes
\* no further step, so a transport error is followed by nothing.
C10_LinearPipeline ==
    /\ []StagesInOrder
    /\ [][/\ exit = "none"
          /\ Rank(pc') > Rank(pc)
          /\ (Printed("req_line")' /\ ~Printed("req_line") => transportCalls' = 0)
          /\ (transportCalls' # transportCalls => pc = "send")
          /\ (Printed("res_line")' /\ ~Printed("res_line") => response # None)]_vars

C10_Witness ==
    /\ exit = "error"
    /\ transportCalls = 1
    /\ response = None
    /\ matches.verbose
    /\ Printed("req_end")
    /\ ~Printed("res_line")

====
